---------------------------- MODULE Spec2Model ----------------------------
(***************************************************************************)
(* FinWise (src/app.py, src/config.py): user accounts, the login session,  *)
(* the expense table, the dashboard aggregation and the Gemini gateway.    *)
(*                                                                         *)
(* A Python str is a sequence of one-character strings, so that the        *)
(* character-level operations of the code (the password regex, strip and   *)
(* split, SQLite's column affinity, the ISO date text) are computed and    *)
(* not assumed.  A Python tuple (a row fetched from SQLite) is a tuple.    *)
(***************************************************************************)
EXTENDS Integers, Sequences, FiniteSets, TLC

VARIABLES
    users,      \* table users: sequence of rows <<id, username, email, password>>
    expenses,   \* table expenses: rows <<id, user_id, date, category, amount, description>>
    session,    \* st.session_state: [logged_in, username, email]
    last,       \* the last operation run and what it returned or displayed
    accepted,   \* history: per email, the password most recently accepted
    addedBy,    \* history: per expense, the id of the user row logged in when it was added
    obs,        \* history: what the last operation was given and whether it changed anything
    pwInput,    \* the string handed to validate_password
    pwResult,   \* what validate_password returned for pwInput
    df,         \* the dashboard's data frame: rows <<category, amount, date text>>
    report,     \* what the dashboard computed from df
    gwCall,     \* the behaviour of the external service during one gateway call
    gwResult    \* the outcome of get_gemini_response for gwCall

vars == <<users, expenses, session, last, accepted, addedBy, obs,
          pwInput, pwResult, df, report, gwCall, gwResult>>

appVars == <<users, expenses, session, last, accepted, addedBy, obs>>
pwVars  == <<pwInput, pwResult>>
aggVars == <<df, report>>
gwVars  == <<gwCall, gwResult>>
otherVars == <<pwInput, pwResult, df, report, gwCall, gwResult>>

-----------------------------------------------------------------------------
(* Python values *)

\* Python's None: a tuple that is no str of the model (its element is not one character).
None == <<"None">>

\* All sequences over S of length at most n.
SeqsUpTo(S, n) == UNION {[1..k -> S] : k \in 0..n}

\* c repeated n times.
Repeat(c, n) == [i \in 1..n |-> c]

-----------------------------------------------------------------------------
(* validate_password: the regex of src/app.py line 54, matched by re.match *)

Lower == {"a","b","c","d","e","f","g","h","i","j","k","l","m",
          "n","o","p","q","r","s","t","u","v","w","x","y","z"}
Upper == {"A","B","C","D","E","F","G","H","I","J","K","L","M",
          "N","O","P","Q","R","S","T","U","V","W","X","Y","Z"}
\* \d (ASCII digits; Python's \d also takes the other Unicode decimal digits).
Digit == {"0","1","2","3","4","5","6","7","8","9"}
\* [@$!%*?&]
Special == {"@","$","!","%","*","?","&"}
\* [A-Za-z\d@$!%*?&]
Allowed == Lower \cup Upper \cup Digit \cup Special

\* The quantifier {8,} of the character class.
MinLen == 8

\* (?=.*[cls]) at position 0: '.' does not match a newline, so the class
\* character must lie on the first line.
LookAhead(s, cls) ==
    \E i \in 1..Len(s) : s[i] \in cls /\ \A j \in 1..(i-1) : s[j] # "\n"

\* ^[Allowed]{8,}$ : k >= 8 allowed characters from the start, then '$',
\* which matches at the very end and also just before a final newline.
BodyMatches(s) ==
    \E k \in MinLen..Len(s) :
        /\ \A i \in 1..k : s[i] \in Allowed
        /\ \/ k = Len(s)
           \/ k = Len(s) - 1 /\ s[Len(s)] = "\n"

\* re.match(pattern, password): TRUE for a match object, FALSE for None.
validate_password(password) ==
    /\ LookAhead(password, Lower)
    /\ LookAhead(password, Upper)
    /\ LookAhead(password, Digit)
    /\ LookAhead(password, Special)
    /\ BodyMatches(password)

-----------------------------------------------------------------------------
(* str operations used by the handlers *)

\* The characters str.strip() and str.split() treat as whitespace.
Whitespace == {" ", "\n", "\t"}

RECURSIVE LStrip(_)
LStrip(s) ==
    IF s = <<>> THEN s
    ELSE IF s[1] \in Whitespace THEN LStrip(Tail(s)) ELSE s

RECURSIVE RStrip(_)
RStrip(s) ==
    IF s = <<>> THEN s
    ELSE IF s[Len(s)] \in Whitespace THEN RStrip(SubSeq(s, 1, Len(s) - 1)) ELSE s

\* str.strip()
Strip(s) == RStrip(LStrip(s))

\* str.split(): the maximal runs of non-whitespace characters, in order.
RECURSIVE Split(_)
Split(s) ==
    LET t == LStrip(s) IN
    IF t = <<>> THEN <<>>
    ELSE LET n == CHOOSE k \in 1..Len(t) :
                    /\ \A i \in 1..k : t[i] \notin Whitespace
                    /\ k = Len(t) \/ t[k+1] \in Whitespace
         IN  <<SubSeq(t, 1, n)>> \o Split(SubSeq(t, n + 1, Len(t)))

DigitChars == <<"0","1","2","3","4","5","6","7","8","9">>

\* The value of a decimal digit character.
DigitValue(c) == (CHOOSE i \in 1..10 : DigitChars[i] = c) - 1

\* Two decimal digits, zero padded.
TwoDigits(n) == <<DigitChars[(n \div 10) + 1], DigitChars[(n % 10) + 1]>>

\* str(date) of a datetime.date <<year, month, day>>: "YYYY-MM-DD".
DateStr(date) ==
    TwoDigits(date[1] \div 100) \o TwoDigits(date[1] % 100) \o <<"-">>
        \o TwoDigits(date[2]) \o <<"-">> \o TwoDigits(date[3])

-----------------------------------------------------------------------------
(* The inputs of the application model *)

\* At most this many expense rows are added.
MaxExpenses == 1

Alice  == <<"a","l","i","c","e">>
Seven  == <<"7">>
OSeven == <<"0","7">>
Empty  == <<>>

Usernames == {Alice, Seven, OSeven}
Emails    == {<<"a","@","x">>, <<"b","@","x">>}

Passw0rd  == <<"P","a","s","s","w","0","r","d","!">>
Secr3t    == <<"S","e","c","r","3","t","&","x">>
Wrong     == <<"w","r","o","n","g">>
Passwords == {Passw0rd, Secr3t, Wrong}

AppDates        == {<<2024, 1, 5>>}
AppAmounts      == {250}
AppDescriptions == {<<"U","b","e","r">>}

\* validate_password(p) for the passwords the application model types: the
\* table holds the operator's value, computed once per password.
PolicyOf == [p \in Passwords \cup {Empty} |-> validate_password(p)]

\* What the gateway call of Add Expense may meet: a normal answer, an answer
\* with surrounding blanks and a second word, a failure, an empty answer and
\* a whitespace-only answer.
AppGwCalls ==
    { [get_model |-> "ok", generate |-> "ok", text |-> "str",
       value |-> v, msg |-> Empty] :
         v \in { <<"F","o","o","d">>, <<" ","F","o","o","d"," ","x","\n">>,
                 Empty, <<" ","\n">> } }
    \cup
    { [get_model |-> "ok", generate |-> "raise", text |-> "str",
       value |-> Empty, msg |-> <<"4","2","9">>] }

\* The prompt of the Add Expense handler (line 191), shortened to its variable part.
CategorizePrompt(description) == <<"C","a","t",":"," ">> \o description

-----------------------------------------------------------------------------
(* SQLite: the two tables *)

\* A text made of decimal digits only is a well-formed integer literal.
\* (SQLite also takes a sign, surrounding blanks and real literals; the
\* usernames of this model are letters or digits.)
IsIntegerLiteral(text) ==
    Len(text) > 0 /\ \A i \in 1..Len(text) : text[i] \in Digit

RECURSIVE IntegerValue(_)
IntegerValue(text) ==
    IF text = <<>> THEN 0
    ELSE 10 * IntegerValue(SubSeq(text, 1, Len(text) - 1)) + DigitValue(text[Len(text)])

\* expenses.user_id is declared INTEGER: a text that is a well-formed number
\* is stored (and, in a comparison with the column, converted) as that
\* number; any other text is kept as text.
IntegerAffinity(text) ==
    IF IsIntegerLiteral(text) THEN <<"integer", IntegerValue(text)>>
    ELSE <<"text", text>>

\* A mutant: the schema without UNIQUE on users.username.
UniqueViolation_EmailOnly(username, email) ==
    \E i \in 1..Len(users) : users[i][3] = email

\* users.username UNIQUE, users.email UNIQUE: would this row be refused?
UniqueViolation(username, email) ==
    \E i \in 1..Len(users) : users[i][2] = username \/ users[i][3] = email

\* hashlib.sha256(password.encode()).hexdigest(): deterministic, and taken
\* to be injective (no collision among the passwords of the model).
hash_password(password) == <<"sha256", password>>

\* SELECT * FROM users WHERE email=? AND password=? ; fetchone()
login_user(email, password) ==
    LET hits == SelectSeq(users,
                    LAMBDA r : r[3] = email /\ r[4] = hash_password(password))
    IN  IF hits = <<>> THEN None ELSE hits[1]

\* The result of register_user and the table after it.
register_user(username, email, password) ==
    IF ~PolicyOf[password]
    THEN [ret |-> "invalid", users |-> users]
    ELSE IF UniqueViolation(username, email)
         THEN [ret |-> "False", users |-> users]       \* sqlite3.IntegrityError
         ELSE [ret |-> "True",
               users |-> Append(users, <<Len(users) + 1, username, email,
                                         hash_password(password)>>)]

\* A mutant: UPDATE users SET password=? without the WHERE clause.
UpdatePassword_AllRows(email, digest) ==
    [i \in 1..Len(users) |-> <<users[i][1], users[i][2], users[i][3], digest>>]

\* UPDATE users SET password=? WHERE email=?
UpdatePassword(email, digest) ==
    [i \in 1..Len(users) |->
        IF users[i][3] = email
        THEN <<users[i][1], users[i][2], users[i][3], digest>>
        ELSE users[i]]

\* A mutant: reset_password without its policy check.
reset_password_NoCheck(email, new_password) ==
    [ret |-> "True", users |-> UpdatePassword(email, hash_password(new_password))]

\* The result of reset_password and the table after it.
reset_password(email, new_password) ==
    IF ~PolicyOf[new_password]
    THEN [ret |-> "invalid", users |-> users]
    ELSE [ret |-> "True",
          users |-> UpdatePassword(email, hash_password(new_password))]

\* Python truthiness of what register_user and reset_password return.
Truthy(ret) == ret # "False"

\* SELECT * FROM expenses WHERE user_id=? : the indices of the rows returned.
DashboardQuery(username) ==
    {i \in 1..Len(expenses) : expenses[i][2] = IntegerAffinity(username)}

-----------------------------------------------------------------------------
(* config.py: the gateway to the external text generator *)

\* f"Error: {e}" starts with this.
ErrorPrefix == <<"E","r","r","o","r",":"," ">>

\* Whether string s starts with string pre.
StartsWith(s, pre) == Len(s) >= Len(pre) /\ SubSeq(s, 1, Len(pre)) = pre

\* What the external service does during one call:
\*   get_model  "ok" | "raise"      genai.GenerativeModel(MODEL_NAME)
\*   generate   "ok" | "raise"      model.generate_content(prompt)
\*   text       "str" | "raise" | "missing"    reading resp.text
\*   value      the text of resp.text ("str") or of str(resp) ("missing")
\*   msg        str(e) of the exception raised, if any

\* A mutant: resp.text read after the try block.
get_gemini_response_TextOutsideTry(prompt, ext) ==
    IF ext.get_model = "raise" \/ ext.generate = "raise"
    THEN [raised |-> FALSE, value |-> ErrorPrefix \o ext.msg]
    ELSE IF ext.text = "raise"
         THEN [raised |-> TRUE, value |-> ext.msg]
         ELSE [raised |-> FALSE, value |-> ext.value]

\* get_gemini_response(prompt): whether an exception leaves the function,
\* and the string returned otherwise.  Every step is inside try/except Exception.
get_gemini_response(prompt, ext) ==
    IF ext.get_model = "raise"
    THEN [raised |-> FALSE, value |-> ErrorPrefix \o ext.msg]
    ELSE IF ext.generate = "raise"
         THEN [raised |-> FALSE, value |-> ErrorPrefix \o ext.msg]
         ELSE IF ext.text = "raise"
              THEN [raised |-> FALSE, value |-> ErrorPrefix \o ext.msg]
              ELSE [raised |-> FALSE, value |-> ext.value]   \* getattr(resp, "text", str(resp))

-----------------------------------------------------------------------------
(* The application: one action per button handler or function call *)

\* History: nothing to record for the operation.
NoObs == [taken |-> FALSE, weak |-> FALSE, blank |-> FALSE, same |-> FALSE]

\* History of a registration or a reset: whether a row already held the
\* username or the email given, whether the password given fails
\* validate_password, whether a field of the form was empty, and whether the
\* operation left both tables and the session as they were.
Observe(username, email, password, blank) ==
    [taken |-> \E i \in 1..Len(users) : users[i][2] = username \/ users[i][3] = email,
     weak  |-> ~PolicyOf[password],
     blank |-> blank,
     same  |-> users' = users /\ expenses' = expenses /\ session' = session]

AppInit ==
    /\ users = <<>>
    /\ expenses = <<>>
    /\ session = [logged_in |-> FALSE, username |-> None, email |-> None]
    /\ last = [op |-> "start", ret |-> "none"]
    /\ accepted = [e \in Emails |-> None]
    /\ addedBy = <<>>
    /\ obs = NoObs

\* History: a reset_password that reported success after the email's
\* registration was accepted replaces the password accepted for the email.
AcceptReset(ret, email, new_password) ==
    IF ret = "True" /\ email \in Emails /\ accepted[email] # None
    THEN [accepted EXCEPT ![email] = new_password]
    ELSE accepted

\* The id of the user row the session's identity was read from.
SessionUserId ==
    (CHOOSE i \in 1..Len(users) :
        users[i][2] = session.username /\ users[i][3] = session.email)

\* Lines 107-116: the Login button.
LoginClick(email, password) ==
    /\ ~session.logged_in
    /\ LET user == login_user(email, password) IN
        IF user # None
        THEN /\ session' = [logged_in |-> TRUE, username |-> user[2], email |-> user[3]]
             /\ last' = [op |-> "Login", ret |-> "welcome"]
        ELSE /\ session' = session
             /\ last' = [op |-> "Login", ret |-> "invalid_credentials"]
    /\ obs' = NoObs
    /\ UNCHANGED <<users, expenses, accepted, addedBy>>
    /\ UNCHANGED otherVars

\* Lines 122-131: the Register button.
RegisterClick(username, email, password) ==
    /\ ~session.logged_in
    /\ IF username = Empty \/ email = Empty \/ password = Empty
       THEN /\ last' = [op |-> "Register", ret |-> "fill_all_fields"]
            /\ UNCHANGED <<users, accepted>>
       ELSE IF ~PolicyOf[password]
       THEN /\ last' = [op |-> "Register", ret |-> "weak_password"]
            /\ UNCHANGED <<users, accepted>>
       ELSE LET r == register_user(username, email, password) IN
            /\ users' = r.users
            /\ accepted' = IF r.ret = "True"
                           THEN [accepted EXCEPT ![email] = password]
                           ELSE accepted
            /\ last' = [op |-> "Register",
                        ret |-> IF Truthy(r.ret) THEN "success" ELSE "already_exists"]
    /\ UNCHANGED <<expenses, session, addedBy>>
    /\ obs' = Observe(username, email, password, Empty \in {username, email, password})
    /\ UNCHANGED otherVars

\* Lines 137-146: the Reset Password button.
ResetClick(email, new_password) ==
    /\ ~session.logged_in
    /\ IF email = Empty \/ new_password = Empty
       THEN /\ last' = [op |-> "Reset", ret |-> "fill_all_fields"]
            /\ UNCHANGED <<users, accepted>>
       ELSE IF ~PolicyOf[new_password]
       THEN /\ last' = [op |-> "Reset", ret |-> "weak_password"]
            /\ UNCHANGED <<users, accepted>>
       ELSE LET r == reset_password(email, new_password) IN
            /\ users' = r.users
            /\ accepted' = AcceptReset(r.ret, email, new_password)
            /\ last' = [op |-> "Reset",
                        ret |-> IF Truthy(r.ret) THEN "success" ELSE "email_not_found"]
    /\ UNCHANGED <<expenses, session, addedBy>>
    /\ obs' = Observe(None, email, new_password, Empty \in {email, new_password})
    /\ UNCHANGED otherVars

\* Lines 61-69: register_user called as a function.
CallRegisterUser(username, email, password) ==
    /\ LET r == register_user(username, email, password) IN
        /\ users' = r.users
        /\ accepted' = IF r.ret = "True"
                       THEN [accepted EXCEPT ![email] = password]
                       ELSE accepted
        /\ last' = [op |-> "register_user", ret |-> r.ret]
    /\ UNCHANGED <<expenses, session, addedBy>>
    /\ obs' = Observe(username, email, password, FALSE)
    /\ UNCHANGED otherVars

\* Lines 71-76: reset_password called as a function.
CallResetPassword(email, new_password) ==
    /\ LET r == reset_password(email, new_password) IN
        /\ users' = r.users
        /\ accepted' = AcceptReset(r.ret, email, new_password)
        /\ last' = [op |-> "reset_password", ret |-> r.ret]
    /\ UNCHANGED <<expenses, session, addedBy>>
    /\ obs' = Observe(None, email, new_password, FALSE)
    /\ UNCHANGED otherVars

\* Lines 153-156: the Logout button.
Logout ==
    /\ session.logged_in
    /\ session' = [session EXCEPT !.logged_in = FALSE, !.username = None]
    /\ last' = [op |-> "Logout", ret |-> "rerun"]
    /\ obs' = NoObs
    /\ UNCHANGED <<users, expenses, accepted, addedBy>>
    /\ UNCHANGED otherVars

\* Lines 188-199: the Add Expense form, submitted.  An exception that leaves
\* the handler ends the script run: nothing is inserted.
AddExpenseSubmit(date, amount, description, ext) ==
    /\ session.logged_in
    /\ Len(expenses) < MaxExpenses
    /\ LET resp   == get_gemini_response(CategorizePrompt(description), ext)
           tokens == Split(Strip(resp.value))
       IN  IF resp.raised
           THEN /\ last' = [op |-> "AddExpense", ret |-> "Exception"]
                /\ UNCHANGED <<expenses, addedBy>>
           ELSE IF tokens = <<>>
           THEN /\ last' = [op |-> "AddExpense", ret |-> "IndexError"]      \* [0] of []
                /\ UNCHANGED <<expenses, addedBy>>
           ELSE /\ expenses' = Append(expenses,
                        <<Len(expenses) + 1, IntegerAffinity(session.username),
                          DateStr(date), tokens[1], amount, description>>)
                /\ addedBy' = Append(addedBy, SessionUserId)
                /\ last' = [op |-> "AddExpense", ret |-> "added"]
    /\ obs' = NoObs
    /\ UNCHANGED <<users, session, accepted>>
    /\ UNCHANGED otherVars

Init ==
    /\ AppInit
    /\ pwInput = Empty /\ pwResult = "none"
    /\ df = <<>> /\ report = <<>>
    /\ gwCall = <<>> /\ gwResult = <<>>

\* What is typed into the Register form: every full form, and the forms with
\* one field left empty.
RegisterForms ==
    (Usernames \X Emails \X Passwords)
    \cup {<<Empty, CHOOSE e \in Emails : TRUE, Passw0rd>>,
          <<Alice, Empty, Passw0rd>>,
          <<Alice, CHOOSE e \in Emails : TRUE, Empty>>}

\* What is typed into the Forgot Password form.
ResetForms ==
    (Emails \X Passwords)
    \cup {<<Empty, Secr3t>>, <<CHOOSE e \in Emails : TRUE, Empty>>}

Next ==
    \/ \E e \in Emails, p \in Passwords : LoginClick(e, p)
    \/ \E f \in RegisterForms : RegisterClick(f[1], f[2], f[3])
    \/ \E f \in ResetForms : ResetClick(f[1], f[2])
    \/ \E u \in Usernames, e \in Emails, p \in Passwords : CallRegisterUser(u, e, p)
    \/ \E e \in Emails, p \in Passwords : CallResetPassword(e, p)
    \/ Logout
    \/ \E d \in AppDates, a \in AppAmounts, t \in AppDescriptions, ext \in AppGwCalls :
          AddExpenseSubmit(d, a, t, ext)

Spec == Init /\ [][Next]_vars

-----------------------------------------------------------------------------
(* validate_password as a function of its argument *)

\* The strings tried are Repeat("a", k) \o tail, k <= MaxPad, Len(tail) <= MaxTail.
MaxPad  == 6
MaxTail == 4

\* One character of each kind the regex tells apart: lowercase, uppercase,
\* digit, special, a character outside the class, and the newline.
PwAlphabet == {"a", "A", "1", "@", "#", "\n"}

PwInputs ==
    {Repeat("a", k) \o tail : k \in 0..MaxPad, tail \in SeqsUpTo(PwAlphabet, MaxTail)}

InitPw ==
    /\ pwInput \in PwInputs
    /\ pwResult = "none"
    /\ AppInit
    /\ df = <<>> /\ report = <<>>
    /\ gwCall = <<>> /\ gwResult = <<>>

\* validate_password(pwInput) is called.
Validate ==
    /\ pwResult = "none"
    /\ pwResult' = IF validate_password(pwInput) THEN "match" ELSE "None"
    /\ UNCHANGED <<pwInput, appVars, aggVars, gwVars>>

SpecPw == InitPw /\ [][Validate]_vars

-----------------------------------------------------------------------------
(* The dashboard aggregation, lines 204-233 *)

\* At most this many expense rows in the data frame.
MaxRows == 3

Food == <<"F","o","o","d">>
Taxi == <<"T","a","x","i">>

AggCategories == {Food, Taxi}
AggAmounts    == {50, 100}
AggDates      == {<<2024, 1, 5>>, <<2024, 2, 10>>, <<2025, 1, 3>>}

\* The columns of an expenses row.
RowDate(r)     == r[3]
RowCategory(r) == r[4]
RowAmount(r)   == r[5]

\* A mutant: the month alone (dt.month), whatever the year.
ToPeriodM_MonthOnly(text) == <<0, IntegerValue(SubSeq(text, 6, 7))>>

\* pd.to_datetime(text).to_period("M") of an ISO date text: <<year, month>>.
ToPeriodM(text) ==
    <<IntegerValue(SubSeq(text, 1, 4)), IntegerValue(SubSeq(text, 6, 7))>>

\* str(period) of a monthly period: "YYYY-MM".
PeriodStr(p) ==
    TwoDigits(p[1] \div 100) \o TwoDigits(p[1] % 100) \o <<"-">> \o TwoDigits(p[2])

\* The order of monthly periods.
PeriodLess(p, q) == p[1] < q[1] \/ (p[1] = q[1] /\ p[2] < q[2])

\* groupby(keys)[amounts].sum(): one pass over the rows, adding each amount
\* to its key's running total.
RECURSIVE GroupSum(_, _)
GroupSum(keys, amounts) ==
    IF keys = <<>> THEN <<>>
    ELSE LET n    == Len(keys)
             rest == GroupSum(SubSeq(keys, 1, n - 1), SubSeq(amounts, 1, n - 1))
         IN  IF keys[n] \in DOMAIN rest
             THEN [rest EXCEPT ![keys[n]] = @ + amounts[n]]
             ELSE rest @@ (keys[n] :> amounts[n])

\* The keys of a monthly group table in ascending order (groupby sorts its keys).
RECURSIVE SortedPeriods(_)
SortedPeriods(S) ==
    IF S = {} THEN <<>>
    ELSE LET m == CHOOSE p \in S : \A q \in S \ {p} : PeriodLess(p, q)
         IN  <<m>> \o SortedPeriods(S \ {m})

\* Series.sum()
RECURSIVE SumAmounts(_)
SumAmounts(amounts) ==
    IF amounts = <<>> THEN 0 ELSE amounts[1] + SumAmounts(Tail(amounts))

\* What the Dashboard page computes from the rows of the query.
DashboardReport(rows) ==
    IF rows = <<>>
    THEN [empty |-> TRUE]                                  \* "No expenses added yet."
    ELSE LET amounts == [i \in 1..Len(rows) |-> RowAmount(rows[i])]
             cats    == [i \in 1..Len(rows) |-> RowCategory(rows[i])]
             periods == [i \in 1..Len(rows) |-> ToPeriodM(RowDate(rows[i]))]
             byMonth == GroupSum(periods, amounts)
             order   == SortedPeriods(DOMAIN byMonth)
         IN  [empty            |-> FALSE,
              category_summary |-> GroupSum(cats, amounts),
              monthly          |-> [i \in 1..Len(order) |->
                                       <<PeriodStr(order[i]), byMonth[order[i]]>>],
              total_expense    |-> SumAmounts(amounts)]

InitAgg ==
    /\ df = <<>>
    /\ report = <<>>
    /\ AppInit
    /\ pwInput = Empty /\ pwResult = "none"
    /\ gwCall = <<>> /\ gwResult = <<>>

\* One more expense row of the logged-in user reaches the data frame.
AggAddRow(date, category, amount) ==
    /\ Len(df) < MaxRows
    /\ df' = Append(df, <<Len(df) + 1, IntegerAffinity(Alice), DateStr(date),
                          category, amount, Empty>>)
    /\ report' = <<>>
    /\ UNCHANGED <<appVars, pwVars, gwVars>>

\* The Dashboard page is rendered.
Dashboard ==
    /\ report = <<>>
    /\ report' = <<DashboardReport(df)>>
    /\ UNCHANGED <<df, appVars, pwVars, gwVars>>

NextAgg ==
    \/ \E d \in AggDates, c \in AggCategories, a \in AggAmounts : AggAddRow(d, c, a)
    \/ Dashboard

SpecAgg == InitAgg /\ [][NextAgg]_vars

-----------------------------------------------------------------------------
(* get_gemini_response as a function of what the external service does *)

\* The longest response text tried.
MaxTextLen == 2

GwAlphabet == {"F", " ", "E"}
GwMessages == {<<"4","2","9">>, Empty}
GwPrompts  == {<<"h","i">>, Empty}

GwCalls ==
    [prompt    : GwPrompts,
     get_model : {"ok", "raise"},
     generate  : {"ok", "raise"},
     text      : {"str", "raise", "missing"},
     value     : SeqsUpTo(GwAlphabet, MaxTextLen),
     msg       : GwMessages]

InitGw ==
    /\ gwCall \in GwCalls
    /\ gwResult = <<>>
    /\ AppInit
    /\ pwInput = Empty /\ pwResult = "none"
    /\ df = <<>> /\ report = <<>>

\* get_gemini_response(prompt) is called and the service behaves as gwCall says.
CallGateway ==
    /\ gwResult = <<>>
    /\ gwResult' = <<get_gemini_response(gwCall.prompt, gwCall)>>
    /\ UNCHANGED <<gwCall, appVars, pwVars, aggVars>>

SpecGw == InitGw /\ [][CallGateway]_vars

-----------------------------------------------------------------------------
(* Properties *)

\* No two user rows share a username, and no two share an email.
UniqueUsers ==
    \A i, j \in 1..Len(users) :
        i # j => users[i][2] # users[j][2] /\ users[i][3] # users[j][3]

\* Some user row has this email.
EmailRegistered(email) == \E i \in 1..Len(users) : users[i][3] = email

\* C1, as stated: user rows never share a username or an email, and every
\* register_user call whose username or email already belongs to a row
\* returns False and leaves the rows as they were.
C1_DuplicateAlwaysConflict ==
    /\ UniqueUsers
    /\ (last.op = "register_user" /\ obs.taken) =>
          (obs.same /\ last.ret = "False")

\* C1, amended: user rows never share a username or an email; a
\* register_user call whose username or email already belongs to a row leaves
\* the rows as they were, and returns False when its password passes the
\* policy ("invalid" when it does not); the Register form then shows the
\* conflict (the password warning when it does not).
C1_DuplicateConflict ==
    /\ UniqueUsers
    /\ (last.op = "register_user" /\ obs.taken) =>
          /\ obs.same
          /\ last.ret = IF obs.weak THEN "invalid" ELSE "False"
    /\ (last.op = "Register" /\ obs.taken /\ ~obs.blank) =>
          /\ obs.same
          /\ last.ret = IF obs.weak THEN "weak_password" ELSE "already_exists"

\* C1's case: a register_user call has just been refused as a duplicate,
\* with an expense already stored.
C1_Witness ==
    /\ last = [op |-> "register_user", ret |-> "False"]
    /\ obs.taken /\ ~obs.weak
    /\ Len(users) >= 1
    /\ Len(expenses) >= 1

\* C2: login_user(email, password) returns a row exactly when a row with the
\* email exists and the password is the one most recently accepted for the
\* email; the row returned is the row of that email.
C2_LoginIffLastAccepted ==
    \A e \in Emails, p \in Passwords \cup {Empty} :
        /\ (login_user(e, p) # None) <=> (EmailRegistered(e) /\ accepted[e] = p)
        /\ login_user(e, p) # None => login_user(e, p)[3] = e

\* C2's case: two users are registered, the last operation was a successful
\* reset_password, and one user logs in with the new password and no longer
\* with the other one.
C2_Witness ==
    /\ Len(users) = 2
    /\ last = [op |-> "reset_password", ret |-> "True"]
    /\ \E e \in Emails :
        /\ accepted[e] = Secr3t
        /\ login_user(e, Secr3t) # None
        /\ login_user(e, Passw0rd) = None
    /\ \E e \in Emails : accepted[e] = Passw0rd

\* C3: a reset_password with a policy-compliant password for an email that
\* matches no row reports not-found ("Email not found" on the form), and a
\* reported success means that a row with the email had its hash replaced.
C3_ResetReportsNotFound ==
    [][ last'.op \in {"reset_password", "Reset"} =>
          \A e \in Emails, p \in Passwords :
            /\ (~EmailRegistered(e) /\ PolicyOf[p] /\ CallResetPassword(e, p))
                  => last'.ret # "True"
            /\ (~EmailRegistered(e) /\ PolicyOf[p] /\ ResetClick(e, p))
                  => last'.ret = "email_not_found"
            /\ (last'.ret \in {"True", "success"}
                      /\ (CallResetPassword(e, p) \/ ResetClick(e, p)))
                  => \E i \in 1..Len(users) :
                        users[i][3] = e /\ users'[i][4] = hash_password(p) ]_vars

\* C4: when the session is logged out, its username and its email are None.
C4_LoggedOutIdentityEmpty ==
    ~session.logged_in => (session.username = None /\ session.email = None)

\* The password policy in words: 8 characters or more, one lowercase letter,
\* one uppercase letter, one digit, one special, nothing outside the class.
PolicyInWords(s) ==
    /\ Len(s) >= 8
    /\ \E i \in 1..Len(s) : s[i] \in Lower
    /\ \E i \in 1..Len(s) : s[i] \in Upper
    /\ \E i \in 1..Len(s) : s[i] \in Digit
    /\ \E i \in 1..Len(s) : s[i] \in Special
    /\ \A i \in 1..Len(s) : s[i] \in Allowed

\* C5: validate_password accepts a string exactly when the string satisfies
\* the policy in words; no accepted string holds a newline.
C5_AcceptsIffPolicy ==
    pwResult # "none" => ((pwResult = "match") <=> PolicyInWords(pwInput))

\* C6: a validation error changes nothing: register_user or reset_password
\* with a password that fails the policy, and a Register or Reset Password
\* form submitted with a weak password or an empty field, leave the user
\* rows, the expense rows and the session as they were.
C6_ValidationErrorNoMutation ==
    /\ (last.op \in {"register_user", "reset_password"} /\ obs.weak)
          => (obs.same /\ last.ret = "invalid")
    /\ (last.op \in {"Register", "Reset"} /\ (obs.blank \/ obs.weak))
          => (obs.same /\ last.ret \in {"fill_all_fields", "weak_password"})

\* C6's case: reset_password has just refused a weak password while a user
\* row and an expense row exist.
C6_Witness ==
    /\ last = [op |-> "reset_password", ret |-> "invalid"]
    /\ obs.taken /\ obs.weak
    /\ Len(users) >= 1
    /\ Len(expenses) >= 1

\* The sum of the amounts of the rows of df with an index in S.
RECURSIVE AmountOver(_)
AmountOver(S) ==
    IF S = {} THEN 0
    ELSE LET i == CHOOSE x \in S : TRUE IN RowAmount(df[i]) + AmountOver(S \ {i})

\* The sum of the values of a table (a function to numbers).
RECURSIVE TableSum(_, _)
TableSum(f, S) ==
    IF S = {} THEN 0
    ELSE LET k == CHOOSE x \in S : TRUE IN f[k] + TableSum(f, S \ {k})

\* "YYYY-MM" of a date text, and the number of months it stands for.
MonthText(text) == SubSeq(text, 1, 7)
MonthNumber(text) ==
    12 * IntegerValue(SubSeq(text, 1, 4)) + IntegerValue(SubSeq(text, 6, 7))

\* C7: for a non-empty data frame the dashboard yields, per category, the sum
\* of the amounts of exactly the rows of the category; per (year, month), the
\* sum of the amounts of exactly the rows dated in it, in ascending order of
\* time; and a total equal to the sum of all amounts, to which the category
\* totals and the monthly totals each add up.
C7_Aggregation ==
    (report # <<>> /\ df # <<>>) =>
        LET r      == report[1]
            rows   == 1..Len(df)
            cats   == {RowCategory(df[i]) : i \in rows}
            months == {MonthText(RowDate(df[i])) : i \in rows}
            m      == r.monthly
        IN  /\ ~r.empty
            /\ DOMAIN r.category_summary = cats
            /\ \A c \in cats :
                  r.category_summary[c] = AmountOver({i \in rows : RowCategory(df[i]) = c})
            /\ {m[k][1] : k \in 1..Len(m)} = months
            /\ \A k \in 1..Len(m) :
                  m[k][2] = AmountOver({i \in rows : MonthText(RowDate(df[i])) = m[k][1]})
            /\ \A k, l \in 1..Len(m) :
                  k < l => MonthNumber(m[k][1]) < MonthNumber(m[l][1])
            /\ r.total_expense = AmountOver(rows)
            /\ TableSum(r.category_summary, cats) = r.total_expense
            /\ TableSum([k \in 1..Len(m) |-> m[k][2]], 1..Len(m)) = r.total_expense

\* C7's case: the dashboard has aggregated three rows of two categories,
\* two of them in one month and the third in the same month of another year.
C7_Witness ==
    /\ report # <<>>
    /\ Len(df) = 3
    /\ {RowCategory(df[i]) : i \in 1..3} = {Food, Taxi}
    /\ {MonthText(RowDate(df[i])) : i \in 1..3}
          = {MonthText(DateStr(<<2024, 1, 5>>)), MonthText(DateStr(<<2025, 1, 3>>))}
    /\ Len(report[1].monthly) = 2

\* C8: get_gemini_response never raises; when obtaining the model, the
\* generate call or reading the text fails it returns a string that starts
\* with "Error:", and otherwise it returns the response text.
C8_GatewayNeverRaises ==
    gwResult # <<>> =>
        LET r      == gwResult[1]
            failed == "raise" \in {gwCall.get_model, gwCall.generate, gwCall.text}
        IN  /\ ~r.raised
            /\ failed => StartsWith(r.value, <<"E","r","r","o","r",":">>)
            /\ ~failed => r.value = gwCall.value

\* C8's case: the call was made and reading resp.text raised.
C8_Witness ==
    /\ gwResult # <<>>
    /\ gwCall.get_model = "ok" /\ gwCall.generate = "ok" /\ gwCall.text = "raise"

\* C9: the owner value of every stored expense identifies exactly one user
\* row, the row of the user logged in when the expense was added, so the
\* Dashboard query of a user returns exactly the expenses that user added.
C9_OwnerIdentifiesAdder ==
    /\ \A i \in 1..Len(expenses) :
          {k \in 1..Len(users) : IntegerAffinity(users[k][2]) = expenses[i][2]}
              = {addedBy[i]}
    /\ \A k \in 1..Len(users) :
          DashboardQuery(users[k][2]) = {i \in 1..Len(expenses) : addedBy[i] = k}

\* C10: an Add Expense submission runs to completion whatever string the
\* gateway returns, and adds exactly one row, whose category is the first
\* whitespace-delimited token of the trimmed response when there is one.
C10_AddExpenseCompletes ==
    [][ last'.op = "AddExpense" =>
        \A d \in AppDates, a \in AppAmounts, t \in AppDescriptions, ext \in AppGwCalls :
          AddExpenseSubmit(d, a, t, ext) =>
              LET tokens == Split(Strip(get_gemini_response(CategorizePrompt(t), ext).value))
              IN  /\ last'.ret = "added"
                  /\ Len(expenses') = Len(expenses) + 1
                  /\ tokens # <<>> => expenses'[Len(expenses')][4] = tokens[1] ]_vars

=============================================================================
